---- MODULE Spec2Model ----
(***************************************************************************)
(* Model of src/window.rs: the Game object that compiles two shader        *)
(* programs, generates one quad mesh per board square, and then runs the   *)
(* poll / draw / swap loop until the window's should-close flag is set.    *)
(*                                                                         *)
(* Coordinates are f32 in the source.  Every value the program computes is *)
(* a multiple of 0.125 of magnitude at most 1, hence exact in f32; the     *)
(* model keeps them as integers counting FixedOne-ths (1.0 = FixedOne).    *)
(* The graphics driver and the window library are the environment: object  *)
(* names are handed out by counting up from 1 (0 is never a valid name),   *)
(* and compile / link outcomes and the key events are inputs.              *)
(***************************************************************************)
EXTENDS Integers, Sequences, FiniteSets, TLC

\* ---------------------------------------------------------------- bounds
MaxEvents == 2      \* key events delivered by one poll_events call
MaxLogLen == 2      \* characters in a driver info log

\* ------------------------------------------------------- program constants
BoardSize == 8      \* for i in 0..8 / for j in 0..8
SquareCount == 64   \* board: [GLuint; 64]
FixedOne == 8       \* fixed-point denominator standing for the f32 value 1.0

Keys == {"Escape", "Other"}
Actions == {"Press", "Release", "Repeat"}
KeyEvent == [key : Keys, action : Actions]

RECURSIVE SeqsUpTo(_, _)
SeqsUpTo(S, n) ==
    IF n = 0 THEN {<<>>}
    ELSE LET shorter == SeqsUpTo(S, n - 1)
         IN  shorter \cup {Append(s, x) : s \in {t \in shorter : Len(t) = n - 1}, x \in S}

EventBatches == SeqsUpTo(KeyEvent, MaxEvents)

LogChars == {"a", "b"}
Space == " "
Nul == "nul"
InfoLogs == SeqsUpTo(LogChars, MaxLogLen)

VARIABLES
    pc,            \* position of the main thread
    i, j,          \* loop counters of generate_vaos / draw_board
    shaders,       \* the Shader values held by generate_shaders
    white_shader,  \* Game.white_shader (Program id, 0 before it exists)
    black_shader,  \* Game.black_shader
    board,         \* Game.board / voas
    writes,        \* how often each slot of voas was assigned
    should_close,  \* the window's should-close flag (written only by set_should_close)
    flushed,       \* the events flush_messages returned to the last handler
    panic,         \* the Err a failed unwrap() reported
    created,       \* driver: every object name ever generated
    deleted,       \* driver: number of Delete* calls per object
    status,        \* driver: COMPILE_STATUS / LINK_STATUS per object
    info_log,      \* driver: info log per object
    attached,      \* driver: shaders attached to each program
    buf_data,      \* driver: contents of each buffer object
    vao_state,     \* driver: buffers captured by each vertex array object
    used,          \* driver: program made current by UseProgram
    bound_vao,     \* driver: vertex array bound by BindVertexArray
    calls          \* window / driver calls issued in the current loop iteration

vars == <<pc, i, j, shaders, white_shader, black_shader, board, writes,
          should_close, flushed, panic, created, deleted, status, info_log,
          attached, buf_data, vao_state, used, bound_vao, calls>>

ShaderSlots == {"white_vert", "white_frag", "black_vert", "black_frag"}

Init ==
    /\ pc = "white_vert"
    /\ i = 0 /\ j = 0
    /\ shaders = [s \in ShaderSlots |-> 0]
    /\ white_shader = 0
    /\ black_shader = 0
    /\ board = [k \in 0..(SquareCount - 1) |-> 0]
    /\ writes = [k \in 0..(SquareCount - 1) |-> 0]
    /\ should_close = FALSE
    /\ flushed = <<>>
    /\ panic = [raised |-> FALSE, msg |-> <<>>]
    /\ created = {}
    /\ deleted = <<>>
    /\ status = <<>>
    /\ info_log = <<>>
    /\ attached = <<>>
    /\ buf_data = <<>>
    /\ vao_state = <<>>
    /\ used = 0
    /\ bound_vao = 0
    /\ calls = <<>>

\* ------------------------------------------------------------ the driver
NameSpace(kind) == IF kind \in {"shader", "program"} THEN "object" ELSE kind

GenName(kind) ==
    Cardinality({h \in created : NameSpace(h[1]) = NameSpace(kind)}) + 1

Delete(del, hs) == [h \in DOMAIN del |-> IF h \in hs THEN del[h] + 1 ELSE del[h]]

InfoLogLength(log) == IF log = <<>> THEN 0 ELSE Len(log) + 1

GetInfoLog(log, bufSize, buf) ==
    LET n == IF bufSize - 1 < Len(log) THEN bufSize - 1 ELSE Len(log)
    IN  IF bufSize <= 0 THEN buf
        ELSE [k \in 1..Len(buf) |->
                 IF k <= n THEN log[k] ELSE IF k = n + 1 THEN Nul ELSE buf[k]]

\* ----------------------------------------------------------- error strings
create_whitespace_cstring_with_len(len) == [k \in 1..len |-> Space]

error_string(log) ==
    LET len == InfoLogLength(log)
    IN  GetInfoLog(log, len, create_whitespace_cstring_with_len(len))
\* ------------------------------------------------------- generate_shaders
\* unwrap() replaced by a call that discards the Err
unwrap_or_continue(ok, next) == next

unwrap(ok, next) == IF ok THEN next ELSE "panicked"

\* The values a panic in generate_shaders drops while unwinding.
HeldShaders == {<<"shader", shaders[s]>> : s \in {t \in ShaderSlots : shaders[t] # 0}}
HeldPrograms == IF white_shader # 0 THEN {<<"program", white_shader>>} ELSE {}

\* Shader::from_*_source(..).unwrap(): the driver's compile outcome and info
\* log are inputs; the log is only read when the compile status is 0.
Compile(slot, next) ==
    /\ pc = slot
    /\ \E ok \in BOOLEAN, log \in InfoLogs :
          LET id == GenName("shader")
              h  == <<"shader", id>>
          IN  /\ ok => log = <<>>
              /\ created' = created \cup {h}
              /\ status' = status @@ (h :> ok)
              /\ info_log' = info_log @@ (h :> log)
              /\ deleted' = IF ok THEN deleted @@ (h :> 0)
                            ELSE Delete(deleted @@ (h :> 0), HeldShaders \cup HeldPrograms)
              /\ shaders' = IF ok THEN [shaders EXCEPT ![slot] = id]
                            ELSE [s \in ShaderSlots |-> 0]
              /\ white_shader' = IF ok THEN white_shader ELSE 0
              /\ panic' = IF ok THEN panic
                          ELSE [raised |-> TRUE, msg |-> error_string(log)]
              /\ pc' = unwrap(ok, next)
    /\ UNCHANGED <<i, j, black_shader, board, writes, should_close, flushed,
                   attached, buf_data, vao_state, used, bound_vao, calls>>

\* Program::from_shaders(&[vert, frag]).unwrap(): the temporary array of the
\* two shaders is dropped at the end of the statement on either outcome.
Link(step, vert, frag, next) ==
    /\ pc = step
    /\ \E ok \in BOOLEAN, log \in InfoLogs :
          LET id  == GenName("program")
              h   == <<"program", id>>
              arr == {<<"shader", shaders[vert]>>, <<"shader", shaders[frag]>>}
          IN  /\ ok => log = <<>>
              /\ created' = created \cup {h}
              /\ status' = status @@ (h :> ok)
              /\ info_log' = info_log @@ (h :> log)
              /\ attached' = attached @@
                    (id :> IF ok THEN {} ELSE {shaders[vert], shaders[frag]})
              /\ deleted' = IF ok THEN Delete(deleted @@ (h :> 0), arr)
                            ELSE Delete(deleted @@ (h :> 0), arr \cup HeldPrograms)
              /\ shaders' = [shaders EXCEPT ![vert] = 0, ![frag] = 0]
              /\ white_shader' = IF ~ok THEN 0
                                 ELSE IF step = "white_link" THEN id ELSE white_shader
              /\ black_shader' = IF ok /\ step = "black_link" THEN id ELSE black_shader
              /\ panic' = IF ok THEN panic
                          ELSE [raised |-> TRUE, msg |-> error_string(log)]
              /\ pc' = unwrap(ok, next)
    /\ UNCHANGED <<i, j, board, writes, should_close, flushed,
                   buf_data, vao_state, used, bound_vao, calls>>

WhiteVert == Compile("white_vert", "white_frag")
WhiteFrag == Compile("white_frag", "white_link")
WhiteLink == Link("white_link", "white_vert", "white_frag", "black_vert")
BlackVert == Compile("black_vert", "black_frag")
BlackFrag == Compile("black_frag", "black_link")
BlackLink == Link("black_link", "black_vert", "black_frag", "generate_vaos")

\* ---------------------------------------------------------- generate_vaos
square_size == (2 * FixedOne) \div 8

\* the quad placed around (x, y) * square_size instead of above and right of it
vertices_centered(x, y) ==
    << x * square_size + square_size \div 2, y * square_size + square_size \div 2, 0,
       x * square_size + square_size \div 2, y * square_size - square_size \div 2, 0,
       x * square_size - square_size \div 2, y * square_size - square_size \div 2, 0,
       x * square_size - square_size \div 2, y * square_size + square_size \div 2, 0 >>

\* the same quad emitted starting from the top-left vertex
vertices_rewound(x, y) ==
    << x * square_size,               y * square_size + square_size, 0,
       x * square_size + square_size, y * square_size + square_size, 0,
       x * square_size + square_size, y * square_size,               0,
       x * square_size,               y * square_size,               0 >>

vertices(x, y) ==
    << x * square_size + square_size, y * square_size + square_size, 0,
       x * square_size + square_size, y * square_size,               0,
       x * square_size,               y * square_size,               0,
       x * square_size,               y * square_size + square_size, 0 >>

indices == <<0, 1, 3, 1, 2, 3>>

\* the board shifted by one square
offset_shifted(k) == k - 3

offset(k) == k - 4

voas_index(a, b) == a * 8 + b

\* the nested `for i in 0..8 { for j in 0..8 { .. } }` counters
LastSquare(a, b) == a = BoardSize - 1 /\ b = BoardSize - 1
NextI(a, b) == IF LastSquare(a, b) THEN 0 ELSE IF b = BoardSize - 1 THEN a + 1 ELSE a
NextJ(a, b) == IF b = BoardSize - 1 THEN 0 ELSE b + 1

GenerateVao ==
    /\ pc = "generate_vaos"
    /\ LET vao == GenName("vao")
           vbo == GenName("buffer")
           ebo == vbo + 1
           new == {<<"vao", vao>>, <<"buffer", vbo>>, <<"buffer", ebo>>}
       IN  /\ created' = created \cup new
           /\ deleted' = deleted @@ [h \in new |-> 0]
           /\ buf_data' = buf_data @@ (vbo :> vertices(offset(i), offset(j)))
                                   @@ (ebo :> indices)
           /\ vao_state' = vao_state @@ (vao :> [vbo |-> vbo, ebo |-> ebo])
           /\ bound_vao' = 0
           /\ board' = [board EXCEPT ![voas_index(i, j)] = vao]
           /\ writes' = [writes EXCEPT ![voas_index(i, j)] = @ + 1]
    /\ i' = NextI(i, j)
    /\ j' = NextJ(i, j)
    /\ pc' = IF LastSquare(i, j) THEN "loop_check" ELSE "generate_vaos"
    /\ UNCHANGED <<shaders, white_shader, black_shader, should_close, flushed,
                   panic, status, info_log, attached, used, calls>>

\* --------------------------------------------------------------- game_loop
\* a loop that ignores the flag
loop_condition_always(flag) == TRUE

loop_condition(flag) == ~flag

LoopCheck ==
    /\ pc = "loop_check"
    /\ IF loop_condition(should_close)
       THEN pc' = "handle_window_event" /\ calls' = <<>>
       ELSE pc' = "exited" /\ calls' = calls
    /\ UNCHANGED <<i, j, shaders, white_shader, black_shader, board, writes,
                   should_close, flushed, panic, created, deleted, status,
                   info_log, attached, buf_data, vao_state, used, bound_vao>>

\* glfw::WindowEvent::Key(Key::Escape, _, Action::Press, _)
\* the pattern without the Action::Press constraint
is_escape_any_action(e) == e.key = "Escape"

is_escape_press(e) == e.key = "Escape" /\ e.action = "Press"

RECURSIVE handle_events(_, _)
handle_events(evs, flag) ==
    IF evs = <<>> THEN flag
    ELSE handle_events(Tail(evs), IF is_escape_press(Head(evs)) THEN TRUE ELSE flag)

HandleWindowEvent ==
    /\ pc = "handle_window_event"
    /\ \E evs \in EventBatches :
          /\ flushed' = evs
          /\ should_close' = handle_events(evs, should_close)
    /\ calls' = Append(calls, [op |-> "poll_events"])
    /\ pc' = "clear"
    /\ UNCHANGED <<i, j, shaders, white_shader, black_shader, board, writes,
                   panic, created, deleted, status, info_log, attached,
                   buf_data, vao_state, used, bound_vao>>

\* a draw() that swaps right after clearing
Clear_then_swap ==
    /\ pc = "clear"
    /\ calls' = calls \o <<[op |-> "ClearColor"], [op |-> "Clear"]>>
    /\ pc' = "swap_buffers"
    /\ UNCHANGED <<i, j, shaders, white_shader, black_shader, board, writes,
                   should_close, flushed, panic, created, deleted, status,
                   info_log, attached, buf_data, vao_state, used, bound_vao>>

Clear ==
    /\ pc = "clear"
    /\ calls' = calls \o <<[op |-> "ClearColor"], [op |-> "Clear"]>>
    /\ pc' = "draw_board"
    /\ UNCHANGED <<i, j, shaders, white_shader, black_shader, board, writes,
                   should_close, flushed, panic, created, deleted, status,
                   info_log, attached, buf_data, vao_state, used, bound_vao>>

\* stripes instead of a checkerboard
square_color_by_file(a, b) == IF a % 2 = 0 THEN black_shader ELSE white_shader

square_color(a, b) == IF (a + b) % 2 = 0 THEN black_shader ELSE white_shader

\* the board read with file and rank exchanged
board_index_transposed(a, b) == b * 8 + a

board_index(a, b) == a * 8 + b

DrawSquare ==
    /\ pc = "draw_board"
    /\ LET program == square_color(i, j)
           vao     == board[board_index(i, j)]
       IN  /\ used' = program
           /\ bound_vao' = vao
           /\ calls' = Append(calls, [op |-> "DrawElements", program |-> program,
                                      vao |-> vao, file |-> i, rank |-> j])
    /\ i' = NextI(i, j)
    /\ j' = NextJ(i, j)
    /\ pc' = IF LastSquare(i, j) THEN "swap_buffers" ELSE "draw_board"
    /\ UNCHANGED <<shaders, white_shader, black_shader, board, writes,
                   should_close, flushed, panic, created, deleted, status,
                   info_log, attached, buf_data, vao_state>>

SwapBuffers ==
    /\ pc = "swap_buffers"
    /\ calls' = Append(calls, [op |-> "swap_buffers"])
    /\ pc' = "loop_check"
    /\ UNCHANGED <<i, j, shaders, white_shader, black_shader, board, writes,
                   should_close, flushed, panic, created, deleted, status,
                   info_log, attached, buf_data, vao_state, used, bound_vao>>

\* Dropping the Game drops its fields; only Program has a destructor that
\* releases a driver object.
DropGame ==
    /\ pc = "exited"
    /\ deleted' = Delete(deleted, {<<"program", white_shader>>,
                                   <<"program", black_shader>>})
    /\ pc' = "dropped"
    /\ UNCHANGED <<i, j, shaders, white_shader, black_shader, board, writes,
                   should_close, flushed, panic, created, status, info_log,
                   attached, buf_data, vao_state, used, bound_vao, calls>>

Next ==
    \/ WhiteVert
    \/ WhiteFrag
    \/ WhiteLink
    \/ BlackVert
    \/ BlackFrag
    \/ BlackLink
    \/ GenerateVao
    \/ LoopCheck
    \/ HandleWindowEvent
    \/ Clear
    \/ DrawSquare
    \/ SwapBuffers
    \/ DropGame

Spec == Init /\ [][Next]_vars

TypeOK ==
    /\ pc \in {"white_vert", "white_frag", "white_link", "black_vert",
               "black_frag", "black_link", "generate_vaos", "loop_check",
               "handle_window_event", "clear", "draw_board", "swap_buffers",
               "exited", "dropped", "panicked"}
    /\ i \in 0..(BoardSize - 1) /\ j \in 0..(BoardSize - 1)
    /\ should_close \in BOOLEAN
    /\ flushed \in EventBatches

\* ===================================================================
\* Properties
\* ===================================================================
Slots == 0..(SquareCount - 1)
Files == 0..7
Ranks == 0..7
Quarter == FixedOne \div 4          \* the f32 value 0.25
Generated == pc \in {"loop_check", "handle_window_event", "clear", "draw_board",
                     "swap_buffers", "exited", "dropped"}
\* generate_vaos has returned and no frame is in progress: the state right
\* after construction and after every frame.  The steps of the loop leave
\* board, buf_data and vao_state unchanged, so the meshes seen here are the
\* meshes of every later state.
Settled == pc = "loop_check"

\* the vertex data the driver holds for the mesh stored in a board slot
Quad(k) == buf_data[vao_state[board[k]].vbo]
Corner(q, n) == <<q[3 * n - 2], q[3 * n - 1]>>
Corners(q) == {Corner(q, n) : n \in 1..4}
Xs(q) == {c[1] : c \in Corners(q)}
Ys(q) == {c[2] : c \in Corners(q)}
MinOf(S) == CHOOSE m \in S : \A n \in S : m <= n
MaxOf(S) == CHOOSE m \in S : \A n \in S : m >= n
Edges(q) == {{Corner(q, n), Corner(q, (n % 4) + 1)} : n \in 1..4}
RECURSIVE SumOver(_, _)
SumOver(f, n) == IF n = 0 THEN 0 ELSE f[n - 1] + SumOver(f, n - 1)

DrawCalls == {calls[k] : k \in {n \in 1..Len(calls) : calls[n].op = "DrawElements"}}
HasEscapePress(evs) ==
    \E k \in 1..Len(evs) : evs[k].key = "Escape" /\ evs[k].action = "Press"
IsPrefix(s, t) == Len(s) <= Len(t) /\ SubSeq(t, 1, Len(s)) = s
Failed == {h \in DOMAIN status : ~status[h]}
FrameLen == SquareCount + 4
FrameOp(k) ==
    IF k = 1 THEN "poll_events"
    ELSE IF k = 2 THEN "ClearColor"
    ELSE IF k = 3 THEN "Clear"
    ELSE IF k < FrameLen THEN "DrawElements"
    ELSE "swap_buffers"

\* C1: once generate_vaos has returned (at every loop check), the 64 quads are pairwise distinct,
\* every corner lies in [-1,1] x [-1,1], each quad is an axis-aligned
\* 0.25 x 0.25 square, no two quads overlap in their interiors, and the
\* areas sum to the viewport area 4.0.
C1_Tiling ==
    Settled =>
        LET quad == [k \in Slots |-> Quad(k)] @@ <<>>
            box  == [k \in Slots |->
                       [xlo |-> MinOf(Xs(quad[k])), xhi |-> MaxOf(Xs(quad[k])),
                        ylo |-> MinOf(Ys(quad[k])), yhi |-> MaxOf(Ys(quad[k]))]] @@ <<>>
            area == [k \in Slots |->
                       (box[k].xhi - box[k].xlo) * (box[k].yhi - box[k].ylo)]
        IN  /\ \A a, b \in Slots : a # b => quad[a] # quad[b]
            /\ \A k \in Slots :
                  /\ -FixedOne <= box[k].xlo /\ box[k].xhi <= FixedOne
                  /\ -FixedOne <= box[k].ylo /\ box[k].yhi <= FixedOne
            /\ \A k \in Slots :
                  /\ Corners(quad[k]) = {box[k].xlo, box[k].xhi} \X {box[k].ylo, box[k].yhi}
                  /\ box[k].xhi - box[k].xlo = Quarter
                  /\ box[k].yhi - box[k].ylo = Quarter
            /\ \A a, b \in Slots : a # b =>
                  \/ box[a].xhi <= box[b].xlo
                  \/ box[b].xhi <= box[a].xlo
                  \/ box[a].yhi <= box[b].ylo
                  \/ box[b].yhi <= box[a].ylo
            /\ SumOver(area, SquareCount) = 4 * FixedOne * FixedOne

C1_Witness ==
    /\ pc = "loop_check"
    /\ calls = <<>>
    /\ Cardinality({Quad(k) : k \in Slots}) = SquareCount

\* C2: every draw call of every frame uses the black program when
\* (file + rank) mod 2 = 0 and the white program otherwise; diagonal
\* neighbours get the same program, horizontal and vertical neighbours
\* different ones.
C2_ColorParity ==
    Generated =>
        /\ white_shader # black_shader
        /\ \A d \in DrawCalls :
              d.program = (IF (d.file + d.rank) % 2 = 0 THEN black_shader
                           ELSE white_shader)
        /\ \A d, e \in DrawCalls :
              /\ (e.file = d.file + 1 /\ e.rank = d.rank + 1) => e.program = d.program
              /\ (e.file = d.file + 1 /\ e.rank = d.rank) => e.program # d.program
              /\ (e.file = d.file /\ e.rank = d.rank + 1) => e.program # d.program

C2_Witness ==
    /\ pc = "loop_check"
    /\ ~should_close
    /\ Cardinality(DrawCalls) = SquareCount

\* C3: a run of handle_window_event entered with the flag unset leaves the
\* flag set exactly when one of the flushed key events is an Escape press.
C3_EscapeSetsClose ==
    [][(pc = "handle_window_event" /\ ~should_close)
           => (should_close' <=> HasEscapePress(flushed'))]_vars

C3_Witness ==
    /\ pc = "clear"
    /\ should_close
    /\ flushed = <<[key |-> "Escape", action |-> "Release"],
                   [key |-> "Escape", action |-> "Press"]>>

\* C4: every slot of the board is written exactly once with a non-zero
\* handle (never more than once at any time), slot file*8 + rank holds the
\* mesh generated from (file, rank), the slots hold distinct handles, and
\* each draw call issued for (file, rank) binds the handle of that slot
\* and uses the parity colour of (file, rank).
C4_IndexBijection ==
    /\ \A k \in Slots : writes[k] <= 1
    /\ Settled =>
        /\ \A k \in Slots : writes[k] = 1 /\ board[k] # 0
        /\ \A a, b \in Slots : a # b => board[a] # board[b]
        /\ \A f \in Files, r \in Ranks :
              Corner(Quad(f * 8 + r), 3) = <<(f - 4) * Quarter, (r - 4) * Quarter>>
    /\ Generated =>
        \A n \in 1..Len(calls) :
            calls[n].op = "DrawElements" =>
                LET d == calls[n]
                IN  /\ d.vao # 0
                    /\ d.vao = board[d.file * 8 + d.rank]
                    /\ Corner(buf_data[vao_state[d.vao].vbo], 3)
                           = <<(d.file - 4) * Quarter, (d.rank - 4) * Quarter>>
                    /\ (d.program = black_shader) <=> ((d.file + d.rank) % 2 = 0)

C4_Witness ==
    /\ pc = "swap_buffers"
    /\ Cardinality(DrawCalls) = SquareCount
    /\ \A k \in Slots : writes[k] = 1

\* C5: for f in [0,7) and r in [0,8) the quads of (f, r) and (f+1, r) have
\* exactly one edge in common, the vertical edge at x = (f-3)*0.25, which is
\* the right edge of the first and the left edge of the second, and both
\* span the same y interval.
C5_SharedEdge ==
    Settled =>
        \A f \in 0..6, r \in Ranks :
            LET p == Quad(f * 8 + r)
                q == Quad((f + 1) * 8 + r)
                x == (f - 3) * Quarter
            IN  /\ MaxOf(Xs(p)) = x
                /\ MinOf(Xs(q)) = x
                /\ Ys(p) = Ys(q)
                /\ Edges(p) \cap Edges(q)
                       = {{<<x, MinOf(Ys(p))>>, <<x, MaxOf(Ys(p))>>}}

C5_Witness ==
    /\ pc = "loop_check"
    /\ Len(calls) = FrameLen
    /\ MaxOf(Xs(Quad(6 * 8 + 7))) = 3 * Quarter
    /\ MinOf(Xs(Quad(7 * 8 + 7))) = 3 * Quarter

\* C6: after the Game is constructed, run and dropped, every program,
\* buffer and vertex array the program acquired has been released exactly
\* once.
C6_ReleasedOnce ==
    pc = "dropped" =>
        \A h \in created :
            h[1] \in {"program", "buffer", "vao"} => deleted[h] = 1

\* C7 (as stated): the midpoint of the four vertices of the quad of
\* (file, rank) is ((file-4)*0.25, (rank-4)*0.25) and the vertices come in
\* the order top-right, bottom-right, bottom-left, top-left.
InWindingOrder(q) ==
    /\ Corner(q, 1) = <<MaxOf(Xs(q)), MaxOf(Ys(q))>>
    /\ Corner(q, 2) = <<MaxOf(Xs(q)), MinOf(Ys(q))>>
    /\ Corner(q, 3) = <<MinOf(Xs(q)), MinOf(Ys(q))>>
    /\ Corner(q, 4) = <<MinOf(Xs(q)), MaxOf(Ys(q))>>
    /\ MinOf(Xs(q)) < MaxOf(Xs(q))
    /\ MinOf(Ys(q)) < MaxOf(Ys(q))
    /\ q[3] = 0 /\ q[6] = 0 /\ q[9] = 0 /\ q[12] = 0

SumX(q) == q[1] + q[4] + q[7] + q[10]
SumY(q) == q[2] + q[5] + q[8] + q[11]

C7_CenteredAtOffset ==
    Settled =>
        \A f \in Files, r \in Ranks :
            LET q == Quad(f * 8 + r)
            IN  /\ SumX(q) = 4 * (f - 4) * Quarter
                /\ SumY(q) = 4 * (r - 4) * Quarter
                /\ InWindingOrder(q)

\* C7 (amended): the bottom-left corner of the quad of (file, rank) is
\* ((file-4)*0.25, (rank-4)*0.25), so the midpoint of its four vertices is
\* ((file-4)*0.25 + 0.125, (rank-4)*0.25 + 0.125); the vertices come in the
\* order top-right, bottom-right, bottom-left, top-left.
C7_CornerAtOffset ==
    Settled =>
        \A f \in Files, r \in Ranks :
            LET q == Quad(f * 8 + r)
            IN  /\ Corner(q, 3) = <<(f - 4) * Quarter, (r - 4) * Quarter>>
                /\ 2 * SumX(q) = 4 * (2 * (f - 4) * Quarter + Quarter)
                /\ 2 * SumY(q) = 4 * (2 * (r - 4) * Quarter + Quarter)
                /\ InWindingOrder(q)

C7_Witness ==
    /\ pc = "loop_check"
    /\ Quad(0) = <<-3 * Quarter, -3 * Quarter, 0, -3 * Quarter, -4 * Quarter, 0,
                   -4 * Quarter, -4 * Quarter, 0, -4 * Quarter, -3 * Quarter, 0>>

\* C8: a failed compile or link is fatal: the program is in the panicked
\* state exactly when some shader or program failed, at most one ever
\* fails, the reported Err starts with that object's info log, no frame has
\* been drawn and no program was made current, and nothing happens after
\* the panic.
C8_FailureIsFatal ==
    /\ [](/\ (Failed # {}) <=> (pc = "panicked")
          /\ Cardinality(Failed) <= 1
          /\ panic.raised <=> (pc = "panicked")
          /\ pc = "panicked" =>
                /\ \A h \in Failed : IsPrefix(info_log[h], panic.msg)
                /\ calls = <<>>
                /\ used = 0
                /\ \A k \in Slots : board[k] = 0)
    /\ [][pc # "panicked"]_vars

C8_Witness ==
    /\ pc = "panicked"
    /\ \E h \in Failed : h[1] = "program" /\ Len(info_log[h]) = MaxLogLen
    /\ Len(panic.msg) = MaxLogLen + 1

\* C9: the calls of one loop iteration are always a prefix of: poll_events,
\* ClearColor, Clear, one DrawElements per board slot 0..63 in slot order,
\* swap_buffers; and the whole sequence has been issued whenever the loop
\* condition is checked after an iteration.
C9_FrameOrder ==
    Generated =>
        /\ Len(calls) <= FrameLen
        /\ \A k \in 1..Len(calls) :
              /\ calls[k].op = FrameOp(k)
              /\ FrameOp(k) = "DrawElements" => calls[k].vao = board[k - 4]
        /\ pc = "handle_window_event" => calls = <<>>
        /\ pc = "clear" => Len(calls) = 1
        /\ pc = "draw_board" => (3 <= Len(calls) /\ Len(calls) < FrameLen - 1)
        /\ pc = "swap_buffers" => Len(calls) = FrameLen - 1
        /\ (pc \in {"loop_check", "exited", "dropped"} /\ calls # <<>>)
              => Len(calls) = FrameLen

C9_Witness ==
    /\ pc = "loop_check"
    /\ should_close
    /\ Len(calls) = FrameLen
    /\ calls[FrameLen].op = "swap_buffers"

\* C10: the flag is never cleared; the loop exits exactly at a loop check
\* that finds the flag set; the iteration whose handler set the flag still
\* issues its whole frame before that check; after the exit no further call
\* is issued.
C10_CloseExitsLoop ==
    /\ [](/\ (should_close /\ pc \in {"clear", "draw_board", "swap_buffers", "loop_check"})
                => (HasEscapePress(flushed) /\ calls[1].op = "poll_events")
          /\ pc \in {"exited", "dropped"} =>
                /\ should_close
                /\ HasEscapePress(flushed)
                /\ Len(calls) = FrameLen
                /\ calls[FrameLen].op = "swap_buffers"
          /\ pc = "handle_window_event" => ~should_close)
    /\ [][/\ should_close => should_close'
          /\ (pc = "loop_check" /\ should_close) => pc' = "exited"
          /\ (pc' = "exited" /\ pc # "exited") => (pc = "loop_check" /\ should_close)
          /\ (pc = "handle_window_event" /\ should_close') => pc' = "clear"
          /\ pc \in {"exited", "dropped"} =>
                (calls' = calls /\ pc' \in {"exited", "dropped"})]_vars

C10_Witness ==
    /\ pc = "exited"
    /\ should_close
    /\ Len(calls) = FrameLen
====
